---- MODULE Spec2Model ----
(***************************************************************************)
(* A model of three parts of the repository:                               *)
(*   - flexget/plugins/clients/deluge2.py: the entries InputDeluge makes   *)
(*     of the daemon's torrents (specification SpecDeluge), and what       *)
(*     OutputDeluge does to the daemon with the accepted entries           *)
(*     (specification SpecOutput);                                         *)
(*   - flexget/utils/simple_persistence.py: the key/value shim over the    *)
(*     simple_persistence table (specification SpecPersist);               *)
(*   - flexget/plugins/metainfo/trakt_lookup.py: the lazy trakt bindings   *)
(*     registered on an entry (specification Spec).                        *)
(***************************************************************************)
EXTENDS Integers, Sequences, FiniteSets, TLC

VARIABLES
    class_store,  \* SimplePersistence.class_store[(taskname, plugin)][key]
    db,           \* rows of the simple_persistence table: db[(task, plugin)][key]
    cur,          \* (self.taskname, self.plugin) of the persistence object
    last,         \* history: the last persistence operation and what it returned
    stage,        \* history: the write/delete/flush steps that led here
    config,       \* the trakt_lookup config of the task
    entry,        \* the entry: its fields and its lazy bindings
    phase,        \* "start", then "registered" or "error" once on_task_metainfo ran
    reads,        \* number of fields read so far
    log,          \* history: the __call__ invocations of the last operation
    lastRead,     \* history: the last field read and what the read returned
    meta_lookups, \* history: lookup calls made while on_task_metainfo ran
    torrents,     \* the deluge daemon: torrents[hash] is the status dict of a torrent
    dconfig,      \* the config of the deluge input plugin
    isfile,       \* the hashes whose .torrent file exists under config_path
    entries,      \* InputDeluge.entries
    connected,    \* client.connected
    derr,         \* the exception on_task_input ended with, or "none"
    ran,          \* history: on_task_input has run
    otask,        \* the task of the deluge output plugin: options and accepted
    oconfig,      \* the config of the deluge output plugin
    session,      \* the daemon's session: session[torrent_id] is its save_path
    torrent_ids,  \* history: the reply of core.get_session_state
    rpcs,         \* history: the calls made on the client, in order
    ophase,       \* "start", then "done" once on_task_output ran
    before        \* history: task.accepted as on_task_output found it

pvars == <<class_store, db, cur, last, stage>>

tvars == <<config, entry, phase, reads, log, lastRead, meta_lookups>>

dvars == <<torrents, dconfig, isfile, entries, connected, derr, ran>>

ovars == <<otask, oconfig, session, torrent_ids, rpcs, ophase, before>>

vars == <<class_store, db, cur, last, stage,
          config, entry, phase, reads, log, lastRead, meta_lookups,
          torrents, dconfig, isfile, entries, connected, derr, ran,
          otask, oconfig, session, torrent_ids, rpcs, ophase, before>>

(***************************************************************************)
(* trakt_lookup.py: the field maps                                         *)
(***************************************************************************)

\* Most fields read from an entry in one behaviour.
MaxReads == 2

\* The keys of each field map: the entry fields the map covers.
series_map ==
    {"trakt_series_name", "trakt_series_year", "imdb_id", "tvdb_id", "tmdb_id",
     "trakt_show_id", "trakt_slug", "tvrage_id", "trakt_trailer", "trakt_homepage",
     "trakt_series_runtime", "trakt_series_first_aired", "trakt_series_air_time",
     "trakt_series_air_day", "trakt_series_content_rating", "trakt_genres",
     "trakt_series_network", "imdb_url", "trakt_series_url", "trakt_series_country",
     "trakt_series_status", "trakt_series_overview", "trakt_series_rating",
     "trakt_series_votes", "trakt_series_language", "trakt_series_aired_episodes",
     "trakt_series_episodes", "trakt_languages"}

\* Mutant: the actor map covers a field of series_map too.
series_actor_map_Overlap == {"trakt_actors", "trakt_genres"}

series_actor_map == {"trakt_actors"}

show_translate_map == {"trakt_translations"}

episode_map ==
    {"trakt_ep_name", "trakt_ep_imdb_id", "trakt_ep_tvdb_id", "trakt_ep_tmdb_id",
     "trakt_ep_tvrage", "trakt_episode_id", "trakt_ep_first_aired",
     "trakt_ep_overview", "trakt_ep_abs_number", "trakt_season", "trakt_episode",
     "trakt_ep_id"}

season_map ==
    {"trakt_season_name", "trakt_season_tvdb_id", "trakt_season_tmdb_id",
     "trakt_season_tvrage", "trakt_season_id", "trakt_season_first_aired",
     "trakt_season_overview", "trakt_season_episode_count", "trakt_season",
     "trakt_season_aired_episodes"}

movie_map ==
    {"movie_name", "movie_year", "trakt_movie_name", "trakt_movie_year",
     "trakt_movie_id", "trakt_slug", "imdb_id", "tmdb_id", "trakt_tagline",
     "trakt_overview", "trakt_released", "trakt_runtime", "trakt_rating",
     "trakt_votes", "trakt_homepage", "trakt_trailer", "trakt_language",
     "trakt_genres", "trakt_languages"}

movie_translate_map == {"trakt_translations"}

movie_actor_map == {"trakt_actors"}

\* user_data_map[data_type], or user_data_map["ratings"][media_type]
user_data_map(data_type, media_type) ==
    CASE data_type = "collected" -> "trakt_collected"
      [] data_type = "watched" -> "trakt_watched"
      [] data_type = "ratings" /\ media_type = "show" -> "trakt_series_user_rating"
      [] data_type = "ratings" /\ media_type = "season" -> "trakt_season_user_rating"
      [] data_type = "ratings" /\ media_type = "episode" -> "trakt_ep_user_rating"
      [] data_type = "ratings" /\ media_type = "movie" -> "trakt_movie_user_rating"

UserDataFields ==
    {"trakt_collected", "trakt_watched", "trakt_series_user_rating",
     "trakt_season_user_rating", "trakt_ep_user_rating", "trakt_movie_user_rating"}

\* Fields other plugins may have set on the entry before trakt_lookup runs.
GivenFields == {"series_name", "tvdb_id", "series_season", "series_episode", "movie_name"}

AllFields ==
    series_map \cup series_actor_map \cup show_translate_map \cup episode_map
    \cup season_map \cup movie_map \cup movie_translate_map \cup movie_actor_map
    \cup UserDataFields \cup GivenFields \cup {"title"}

\* A field is "absent", or holds "orig" (set before the plugin ran), "val" (a
\* looked-up value) or "None".
Truthy(cell) == cell \in {"orig", "val"}

\* The schema's configs: a boolean, or a dict with username and/or account.
Configs == {"false", "true", "username", "account"}

\* What the external lookup call does: it returns, or raises LookupError (not
\* found), or raises ConnectionError (transport failure).
Outcomes == {"ok", "LookupError", "ConnectionError"}

NoRead == [field |-> "title", res |-> "none", pend |-> 0, n |-> 0]

EntryOf(given) ==
    [store |-> [f \in AllFields |->
                    IF f \in given \cup {"title"} THEN "orig" ELSE "absent"],
     lazy |-> <<>>]

\* An execution context: the entry, the outcomes the external calls still to
\* come will have, the __call__ invocations so far, the number of lookup calls
\* so far and the exception on its way out.
Ctx(e, outs) == [e |-> e, outs |-> outs, log |-> <<>>, n |-> 0, err |-> "none"]

(***************************************************************************)
(* flexget.entry (Entry): register_lazy_func, get, update_using_map        *)
(***************************************************************************)

\* entry.register_lazy_func(func, keys): a pending binding.
register_lazy_func(x, cls, keys, getter, data) ==
    [x EXCEPT !.e.lazy = Append(@, [cls |-> cls, keys |-> keys, getter |-> getter,
                                    data |-> data, state |-> "pending", calls |-> 0,
                                    out |-> "none"])]

\* entry.update_using_map(field_map, result): every field of the map is written.
update_using_map(e, keys) ==
    [e EXCEPT !.store = [f \in AllFields |-> IF f \in keys THEN "val" ELSE @[f]]]

\* The fields whose cell differs between two states of the entry
Changed(e1, e2) == {f \in AllFields : e1.store[f] # e2.store[f]}

PendingFor(e, f) ==
    {i \in DOMAIN e.lazy : e.lazy[i].state = "pending" /\ f \in e.lazy[i].keys}

Lowest(S) == CHOOSE i \in S : \A j \in S : i <= j

RECURSIVE EntryGet(_, _, _)

\* F applied to the value of v, which is computed once.
With(v, F(_)) == CHOOSE y \in {F(r) : r \in {v}} : TRUE

(***************************************************************************)
(* trakt_lookup.py: the lookups                                            *)
(***************************************************************************)

\* The field a getter reads with eval_lazy=True
IdField(media_type) == IF media_type = "movie" THEN "trakt_movie_id" ELSE "trakt_show_id"

\* entry[key] raises KeyError, a LookupError, when the getter needs a field the
\* entry lacks.
GetterKeysPresent(e, media_type) ==
    CASE media_type = "season" -> e.store["series_season"] # "absent"
      [] media_type = "episode" ->
            e.store["series_season"] # "absent" /\ e.store["series_episode"] # "absent"
      [] OTHER -> TRUE

\* Mutant: the read of the id field runs the lookup of the binding once more.
GetterReentered(x, media_type) ==
    With(EntryGet(x, IdField(media_type), TRUE), LAMBDA g :
        [x |-> [g.x EXCEPT !.outs = Tail(@), !.n = @ + 2],
         out |-> IF Head(g.x.outs) = "ok" /\ ~GetterKeysPresent(g.x.e, media_type)
                 THEN "LookupError" ELSE Head(g.x.outs)])

\* getter_map[media_type](entry, session): __get_series, __get_season,
\* __get_episode, __get_movie. The lookup args read trakt_show_id
\* (trakt_movie_id) with eval_lazy=True, then the external lookup is called.
Getter(x, media_type) ==
    With(EntryGet(x, IdField(media_type), TRUE), LAMBDA g :
        [x |-> [g.x EXCEPT !.outs = Tail(@), !.n = @ + 1],
         out |-> IF Head(g.x.outs) = "ok" /\ ~GetterKeysPresent(g.x.e, media_type)
                 THEN "LookupError" ELSE Head(g.x.outs)])

\* The return of the __call__ of binding i, entered in context x: r is what the
\* lookup function did, e2 the entry and raised the exception on the way out.
Return(x, i, r, e2, raised) ==
    With(e2, LAMBDA e :
        [r.x EXCEPT !.e = [e EXCEPT !.lazy[i].out = r.out],
                    !.err = raised,
                    !.log = Append(@, [idx |-> i, cls |-> x.e.lazy[i].cls,
                                       out |-> r.out, raised |-> raised,
                                       changed |-> Changed(x.e, e)])])

\* Mutant: the lookup is tried a second time after a LookupError.
TraktLookup__call__Retry(x, i) ==
    With(Getter([x EXCEPT !.e.lazy[i].calls = @ + 1], x.e.lazy[i].getter), LAMBDA r :
        Return(x, i, r,
               IF r.out = "ok" THEN update_using_map(r.x.e, x.e.lazy[i].keys)
               ELSE IF r.out = "LookupError"
               THEN [r.x.e EXCEPT !.lazy[i].calls = @ + 1]
               ELSE r.x.e,
               IF r.out \in {"ok", "LookupError"} THEN "none" ELSE r.out))

\* Mutant: after a LookupError the fields of the map are set to None.
TraktLookup__call__None(x, i) ==
    With(Getter([x EXCEPT !.e.lazy[i].calls = @ + 1], x.e.lazy[i].getter), LAMBDA r :
        Return(x, i, r,
               IF r.out = "ok" THEN update_using_map(r.x.e, x.e.lazy[i].keys)
               ELSE IF r.out = "LookupError"
               THEN [r.x.e EXCEPT !.store = [f \in AllFields |->
                        IF f \in x.e.lazy[i].keys THEN "None" ELSE @[f]]]
               ELSE r.x.e,
               IF r.out \in {"ok", "LookupError"} THEN "none" ELSE r.out))

\* Mutant: the LookupError is not caught.
TraktLookup__call__Reraise(x, i) ==
    With(Getter([x EXCEPT !.e.lazy[i].calls = @ + 1], x.e.lazy[i].getter), LAMBDA r :
        Return(x, i, r,
               IF r.out = "ok" THEN update_using_map(r.x.e, x.e.lazy[i].keys)
               ELSE r.x.e,
               IF r.out = "ok" THEN "none" ELSE r.out))

\* TraktLookup.__call__(entry) of binding i: the lookup function is called; its
\* result is mapped onto the entry; a LookupError is logged.
TraktLookup__call__(x, i) ==
    With(Getter([x EXCEPT !.e.lazy[i].calls = @ + 1], x.e.lazy[i].getter), LAMBDA r :
        Return(x, i, r,
               IF r.out = "ok" THEN update_using_map(r.x.e, x.e.lazy[i].keys)
               ELSE r.x.e,
               IF r.out \in {"ok", "LookupError"} THEN "none" ELSE r.out))

\* PluginTraktLookup.lazy_user_data_lookup(data_type, media_type, entry): the
\* value, "None" when a LookupError was caught, or the exception that escapes.
lazy_user_data_lookup(x, media_type) ==
    With(Getter(x, media_type), LAMBDA r :
        IF r.out = "LookupError" THEN [x |-> r.x, out |-> "None"]
        ELSE IF r.out # "ok" THEN r
        ELSE [x |-> [r.x EXCEPT !.outs = Tail(@), !.n = @ + 1],
              out |-> CASE Head(r.x.outs) = "ok" -> "val"
                        [] Head(r.x.outs) = "LookupError" -> "None"
                        [] OTHER -> Head(r.x.outs)])

\* TraktUserDataLookup.__call__(entry) of binding i: the result of the lookup
\* function is assigned to the field; a LookupError is logged.
TraktUserDataLookup__call__(x, i) ==
    With(lazy_user_data_lookup([x EXCEPT !.e.lazy[i].calls = @ + 1],
                               x.e.lazy[i].getter), LAMBDA r :
        Return(x, i, r,
               IF r.out \in {"val", "None"}
               THEN [r.x.e EXCEPT !.store[CHOOSE f \in x.e.lazy[i].keys : TRUE] = r.out]
               ELSE r.x.e,
               IF r.out \in {"val", "None"} THEN "none" ELSE r.out))

\* The registered callable of binding i
Call(x, i) ==
    IF x.e.lazy[i].cls = "TraktLookup" THEN TraktLookup__call__(x, i)
    ELSE TraktUserDataLookup__call__(x, i)

\* entry.get(key, eval_lazy=...): a materialized field is returned; else the
\* pending binding that covers the field is evaluated, once, an exception of
\* its callable is absorbed, and the field's value, or the default ("absent"),
\* is returned.
EntryGet(x, f, eval_lazy) ==
    IF x.e.store[f] # "absent" THEN [x |-> x, val |-> x.e.store[f]]
    ELSE IF eval_lazy /\ PendingFor(x.e, f) # {}
    THEN With(Lowest(PendingFor(x.e, f)), LAMBDA i :
            With(Call([x EXCEPT !.e.lazy[i].state = "running"], i), LAMBDA r :
                [x |-> [r EXCEPT !.e.lazy[i].state =
                                    IF r.err = "none" THEN "evaluated" ELSE "failed",
                                 !.err = "none"],
                 val |-> r.e.store[f]]))
    ELSE [x |-> x, val |-> "absent"]

(***************************************************************************)
(* trakt_lookup.py: on_task_metainfo                                       *)
(***************************************************************************)

\* __entry_is_show: entry.get('series_name') or entry.get('tvdb_id', eval_lazy=False)
entry_is_show(x) ==
    With(EntryGet(x, "series_name", TRUE), LAMBDA g :
        [x |-> g.x,
         val |-> Truthy(g.val) \/ Truthy(EntryGet(g.x, "tvdb_id", FALSE).val)])

\* Mutant: an entry with a series_episode is an episode.
entry_is_episode_AnyEpisode(e) == e.store["series_episode"] # "absent"

\* __entry_is_episode: 'series_season' in entry and 'series_episode' in entry
entry_is_episode(e) ==
    e.store["series_season"] # "absent" /\ e.store["series_episode"] # "absent"

\* __entry_is_season
entry_is_season(e) ==
    e.store["series_season"] # "absent" /\ ~entry_is_episode(e)

\* __entry_is_movie: entry.get('movie_name')
entry_is_movie(x) ==
    With(EntryGet(x, "movie_name", TRUE), LAMBDA g : [x |-> g.x, val |-> Truthy(g.val)])

\* __get_media_type_from_entry: the media type, or PluginError
get_media_type_from_entry(x) ==
    IF entry_is_episode(x.e) THEN [x |-> x, val |-> "episode"]
    ELSE IF entry_is_season(x.e) THEN [x |-> x, val |-> "season"]
    ELSE With(entry_is_show(x), LAMBDA s :
            IF s.val THEN [x |-> s.x, val |-> "show"]
            ELSE With(entry_is_movie(s.x), LAMBDA m :
                    IF m.val THEN [x |-> m.x, val |-> "movie"]
                    ELSE [x |-> [m.x EXCEPT !.err = "PluginError"], val |-> "none"]))

\* __register_lazy_user_data_lookup(entry, data_type, media_type); media_type
\* "none" stands for the default None. Nothing more is done once an exception
\* is on its way out.
register_lazy_user_data_lookup(x, data_type, media_type) ==
    IF x.err # "none" THEN x
    ELSE With(IF media_type = "none" THEN get_media_type_from_entry(x)
              ELSE [x |-> x, val |-> media_type], LAMBDA m :
            IF m.x.err # "none" THEN m.x
            ELSE register_lazy_func(m.x, "TraktUserDataLookup",
                                    {user_data_map(data_type, m.val)}, m.val, data_type))

\* __register_lazy_user_ratings_lookup(entry)
register_lazy_user_ratings_lookup(x) ==
    IF x.err # "none" THEN x
    ELSE With(entry_is_show(x), LAMBDA s :
            IF s.val
            THEN With(register_lazy_user_data_lookup(s.x, "ratings", "show"), LAMBDA x1 :
                 With(register_lazy_user_data_lookup(x1, "ratings", "season"), LAMBDA x2 :
                      register_lazy_user_data_lookup(x2, "ratings", "episode")))
            ELSE register_lazy_user_data_lookup(s.x, "ratings", "movie"))

\* on_task_metainfo, lines 336-352: the metadata bindings of the entry
register_metadata(x) ==
    With(entry_is_show(x), LAMBDA s :
        IF s.val
        THEN With(register_lazy_func(
                      register_lazy_func(
                          register_lazy_func(s.x, "TraktLookup", series_map, "show", "none"),
                          "TraktLookup", series_actor_map, "show", "none"),
                      "TraktLookup", show_translate_map, "show", "none"), LAMBDA x3 :
                IF entry_is_episode(x3.e)
                THEN register_lazy_func(x3, "TraktLookup", episode_map, "episode", "none")
                ELSE IF entry_is_season(x3.e)
                THEN register_lazy_func(x3, "TraktLookup", season_map, "season", "none")
                ELSE x3)
        ELSE register_lazy_func(
                 register_lazy_func(
                     register_lazy_func(s.x, "TraktLookup", movie_map, "movie", "none"),
                     "TraktLookup", movie_actor_map, "movie", "none"),
                 "TraktLookup", movie_translate_map, "movie", "none"))

\* on_task_metainfo(task, config) for a task whose entries are [entry]
on_task_metainfo(x, cfg) ==
    IF cfg = "false" THEN x
    ELSE With(register_metadata(x), LAMBDA x1 :
            IF cfg \in {"username", "account"}
            THEN With(register_lazy_user_data_lookup(x1, "collected", "none"), LAMBDA x2 :
                 With(register_lazy_user_data_lookup(x2, "watched", "none"), LAMBDA x3 :
                      register_lazy_user_ratings_lookup(x3)))
            ELSE x1)

\* The outcomes of the n external calls of one operation, in call order
OutcomeSeqs(n) == [1..n -> Outcomes]

\* The most external calls a read of f makes: none when f is materialized or
\* covered by no pending binding; else the getter's lookup, the user-data
\* lookup after it, and the lookup of a pending binding that covers the field
\* the getter reads.
CallsOfRead(e, f) ==
    IF e.store[f] # "absent" \/ PendingFor(e, f) = {} THEN 0
    ELSE LET i == Lowest(PendingFor(e, f))
             idf == IdField(e.lazy[i].getter)
         IN (IF e.lazy[i].cls = "TraktLookup" THEN 1 ELSE 2)
            + (IF e.store[idf] = "absent" /\ PendingFor(e, idf) \ {i} # {} THEN 1 ELSE 0)

\* on_task_metainfo makes at most one: the lookup behind entry.get('movie_name').
CallsOfMetainfo(e, cfg) ==
    IF /\ cfg \in {"username", "account"}
       /\ e.store["movie_name"] = "absent"
       /\ e.store["series_season"] = "absent"
       /\ e.store["series_name"] = "absent"
       /\ e.store["tvdb_id"] = "absent"
    THEN 1 ELSE 0

EmptyEntry == EntryOf({})

\* The fields the model reads, one of every kind: a field of series_map, one
\* that series_map covers and that may be given, one of a map whose getter is
\* the series getter too, one that episode_map and season_map cover, the field
\* __entry_is_movie reads, a field of movie_map, and two user-data fields.
ReadFields ==
    {"trakt_series_name", "tvdb_id", "trakt_actors", "trakt_season", "movie_name",
     "trakt_movie_name", "trakt_collected", "trakt_season_user_rating"}

OnTaskMetainfo ==
    /\ phase = "start"
    /\ \E outs \in OutcomeSeqs(CallsOfMetainfo(entry, config)) :
          \E x \in {on_task_metainfo(Ctx(entry, outs), config)} :
          /\ entry' = x.e
          /\ phase' = IF x.err = "none" THEN "registered" ELSE "error"
          /\ log' = x.log
          /\ meta_lookups' = x.n
    /\ UNCHANGED <<config, reads, lastRead>>
    /\ UNCHANGED pvars
    /\ UNCHANGED dvars
    /\ UNCHANGED ovars

\* A plugin reads entry[f] or entry.get(f, default) after the metainfo phase.
Read(f) ==
    /\ phase \in {"registered", "error"}
    /\ reads < MaxReads
    /\ \E outs \in OutcomeSeqs(CallsOfRead(entry, f)) :
          \E g \in {EntryGet(Ctx(entry, outs), f, TRUE)} :
          /\ entry' = g.x.e
          /\ log' = g.x.log
          /\ lastRead' = [field |-> f, res |-> g.val, n |-> g.x.n,
                          pend |-> IF entry.store[f] = "absent" /\ PendingFor(entry, f) # {}
                                   THEN Lowest(PendingFor(entry, f)) ELSE 0]
    /\ reads' = reads + 1
    /\ UNCHANGED <<config, phase, meta_lookups>>
    /\ UNCHANGED pvars
    /\ UNCHANGED dvars
    /\ UNCHANGED ovars


(***************************************************************************)
(* simple_persistence.py                                                   *)
(***************************************************************************)

\* Largest value a caller stores; the values are 1..MaxVal.
MaxVal == 2
\* Most rows the table holds when the program starts (rows of earlier runs).
MaxRows == 1

Values == 1..MaxVal
\* "key" is the literal that __getitem__ tests; "a" is any other key.
Keys == {"key", "a"}
Scopes == {<<"task1", "pluginA">>, <<"task1", "pluginB">>}

\* Cells of the store and of the table are integers: a stored value is positive.
\* DELETE is the marker object, Absent a key the dict does not hold, NoRow a
\* query with no row, KeyError the exception of a read, NoResult no read.
DELETE == -1
Absent == 0
NoRow == -4
KeyError == -2
NoResult == -3

NoStage == [tag |-> "none", key |-> "key", val |-> 0, read |-> FALSE]
NoLast == [op |-> "init", key |-> "key", val |-> 0, res |-> NoResult,
           held |-> Absent, queried |-> FALSE, pre |-> NoStage]

\* self.store: the dict of the current (taskname, plugin). class_store is the
\* nested mapping store[taskname][pluginname][key] that line 78 documents; as
\* written, defaultdict(defaultdict(dict)) on line 79 raises TypeError when the
\* class body runs, so this is the class once that line is made to build the
\* mapping it names.
store == class_store[cur]

\* The value a row of an earlier run holds
RowValues == {1}

RowCount(d) == Cardinality({sk \in Scopes \X Keys : d[sk[1]][sk[2]] # NoRow})

\* The store is empty; the table holds the rows of earlier runs; no entry is
\* looked up.
PersistInit ==
    /\ class_store = [s \in Scopes |-> [k \in Keys |-> Absent]]
    /\ db \in [Scopes -> [Keys -> RowValues \cup {NoRow}]]
    /\ RowCount(db) <= MaxRows
    /\ cur = <<"task1", "pluginA">>
    /\ last = NoLast
    /\ stage = NoStage
    /\ config = "false"
    /\ entry = EmptyEntry
    /\ phase = "idle"
    /\ reads = 0
    /\ log = <<>>
    /\ lastRead = NoRead
    /\ meta_lookups = 0
    /\ torrents = <<>>
    /\ dconfig = [config_path |-> ""]
    /\ isfile = {}
    /\ entries = <<>>
    /\ connected = FALSE
    /\ derr = "none"
    /\ ran = FALSE
    /\ otask = [learn |-> FALSE, test |-> FALSE, accepted |-> <<>>]
    /\ oconfig = [bool |-> FALSE]
    /\ session = <<>>
    /\ torrent_ids = {}
    /\ rpcs = <<>>
    /\ ophase = "idle"
    /\ before = <<>>

\* What __getitem__(key) does under the scope s = (taskname, plugin): the
\* value or KeyError, the store afterwards, and whether the table was queried.
GetItemAt(s, key) ==
    IF class_store[s]["key"] # Absent
    THEN [res |-> IF class_store[s][key] = Absent \/ class_store[s][key] = DELETE
                  THEN KeyError ELSE class_store[s][key],
          store |-> class_store[s],
          queried |-> FALSE]
    ELSE IF db[s][key] = NoRow
    THEN [res |-> KeyError, store |-> class_store[s], queried |-> TRUE]
    ELSE [res |-> db[s][key],
          store |-> [class_store[s] EXCEPT ![key] = db[s][key]],
          queried |-> TRUE]

\* __getitem__(key) of the persistence object
GetItemResult(key) == GetItemAt(cur, key)

\* What flush() leaves in the table.
FlushResult == db

\* Mutant: the store is keyed by the task alone.
SetItemPerTask(key, value) ==
    /\ class_store' = [s \in Scopes |->
                          IF s[1] = cur[1] THEN [class_store[s] EXCEPT ![key] = value]
                          ELSE class_store[s]]
    /\ last' = [NoLast EXCEPT !.op = "set", !.key = key, !.val = value]
    /\ stage' = [tag |-> "set", key |-> key, val |-> value, read |-> FALSE]
    /\ UNCHANGED <<db, cur>>
    /\ UNCHANGED tvars
    /\ UNCHANGED dvars
    /\ UNCHANGED ovars

SetItem(key, value) ==
    /\ class_store' = [class_store EXCEPT ![cur][key] = value]
    /\ last' = [NoLast EXCEPT !.op = "set", !.key = key, !.val = value]
    /\ stage' = [tag |-> "set", key |-> key, val |-> value, read |-> FALSE]
    /\ UNCHANGED <<db, cur>>
    /\ UNCHANGED tvars
    /\ UNCHANGED dvars
    /\ UNCHANGED ovars

GetItem(key) ==
    LET r == GetItemResult(key) IN
    /\ class_store' = [class_store EXCEPT ![cur] = r.store]
    /\ last' = [NoLast EXCEPT !.op = "get", !.key = key, !.res = r.res,
                              !.held = store[key], !.queried = r.queried,
                              !.pre = [stage EXCEPT !.read = FALSE]]
    /\ stage' = IF stage.tag \in {"del", "set_del"} /\ stage.key = key
                THEN [stage EXCEPT !.read = TRUE]
                ELSE NoStage
    /\ UNCHANGED <<db, cur>>
    /\ UNCHANGED tvars
    /\ UNCHANGED dvars
    /\ UNCHANGED ovars

DelItem(key) ==
    /\ class_store' = [class_store EXCEPT ![cur][key] = DELETE]
    /\ last' = [NoLast EXCEPT !.op = "del", !.key = key]
    /\ stage' = IF stage.tag = "set" /\ stage.key = key
                THEN [stage EXCEPT !.tag = "set_del"]
                ELSE [NoStage EXCEPT !.tag = "del", !.key = key]
    /\ UNCHANGED <<db, cur>>
    /\ UNCHANGED tvars
    /\ UNCHANGED dvars
    /\ UNCHANGED ovars

Flush ==
    /\ db' = FlushResult
    /\ last' = [NoLast EXCEPT !.op = "flush", !.pre = [stage EXCEPT !.read = FALSE]]
    /\ stage' = IF stage.tag = "set" THEN [stage EXCEPT !.tag = "set_flush"]
                ELSE IF stage.tag = "set_del" /\ ~stage.read
                THEN [stage EXCEPT !.tag = "set_del_flush"]
                ELSE NoStage
    /\ UNCHANGED <<class_store, cur>>
    /\ UNCHANGED tvars
    /\ UNCHANGED dvars
    /\ UNCHANGED ovars

\* SimpleTaskPersistence.plugin follows task.current_plugin.
SwitchPlugin ==
    /\ cur' \in Scopes \ {cur}
    /\ last' = [NoLast EXCEPT !.op = "switch"]
    /\ stage' = NoStage
    /\ UNCHANGED <<class_store, db>>
    /\ UNCHANGED tvars
    /\ UNCHANGED dvars
    /\ UNCHANGED ovars

PersistNext ==
    \/ \E k \in Keys, v \in Values : SetItem(k, v)
    \/ \E k \in Keys : GetItem(k)
    \/ \E k \in Keys : DelItem(k)
    \/ Flush
    \/ SwitchPlugin

\* The persistence shim on its own
SpecPersist == PersistInit /\ [][PersistNext]_vars

\* C6: after p[k] = v; p.flush(); the read p[k] returns v.
C6_RoundTrip ==
    (last.op = "get" /\ last.pre.tag = "set_flush" /\ last.pre.key = last.key)
        => last.res = last.pre.val

\* C7: after p[k] = v; del p[k]; p.flush(); the read p[k] raises KeyError,
\* whatever rows the table held.
C7_Tombstone ==
    (last.op = "get" /\ last.pre.tag = "set_del_flush" /\ last.pre.key = last.key)
        => last.res = KeyError

\* C8: after del p[k] and before a flush or a new write of k, every read p[k]
\* raises KeyError and leaves the DELETE marker in the store.
C8_TombstoneUntilFlush ==
    (last.op = "get" /\ last.pre.tag \in {"del", "set_del"} /\ last.pre.key = last.key)
        => (last.res = KeyError /\ store[last.key] = DELETE)

\* C9: a key held in the in-memory store with a value other than DELETE is
\* returned from the store without a query of the table.
C9_Membership ==
    (last.op = "get" /\ last.held \in Values)
        => (last.res = last.held /\ ~last.queried)

\* C10: after flush() the table row of a key written since the last flush holds
\* the written value, and a key deleted since the last flush has no row.
C10_FlushCommits ==
    last.op = "flush" =>
        /\ last.pre.tag = "set" => db[cur][last.pre.key] = last.pre.val
        /\ last.pre.tag \in {"del", "set_del"} => db[cur][last.pre.key] = NoRow

MaxKeys == 2

Hashes == {"h1", "h2"}

\* Cells of a status dict and of an entry: a number num/den, a string, a
\* boolean, a list of file dicts, or a list of paths.
Num(n) == [num |-> n, den |-> 1]
Str(s) == [str |-> s]

\* InputDeluge.settings_map: key of the status dict -> <<entry field, format_func>>
settings_map ==
    [k \in {"name", "hash", "num_peers", "num_seeds", "progress", "seeding_time",
            "private", "state", "eta", "ratio", "move_on_completed_path", "save_path",
            "label", "total_size", "files"} |->
        CASE k = "name" -> <<"title", "plain">>
          [] k = "hash" -> <<"torrent_info_hash", "plain">>
          [] k = "num_peers" -> <<"torrent_peers", "plain">>
          [] k = "num_seeds" -> <<"torrent_seeds", "plain">>
          [] k = "progress" -> <<"deluge_progress", "plain">>
          [] k = "seeding_time" -> <<"deluge_seed_time", "hours">>
          [] k = "private" -> <<"deluge_private", "plain">>
          [] k = "state" -> <<"deluge_state", "plain">>
          [] k = "eta" -> <<"deluge_eta", "plain">>
          [] k = "ratio" -> <<"deluge_ratio", "plain">>
          [] k = "move_on_completed_path" -> <<"deluge_movedone", "plain">>
          [] k = "save_path" -> <<"deluge_path", "plain">>
          [] k = "label" -> <<"deluge_label", "plain">>
          [] k = "total_size" -> <<"content_size", "mib">>
          [] k = "files" -> <<"content_files", "paths">>]

\* InputDeluge.extra_settings_map: every key keeps its name; active_time is
\* formatted.
extra_settings_map ==
    [k \in {"active_time", "compact", "distributed_copies", "download_payload_rate",
            "file_progress", "is_auto_managed", "is_seed", "max_connections",
            "max_download_speed", "max_upload_slots", "max_upload_speed", "message",
            "move_on_completed", "next_announce", "num_files", "num_pieces", "paused",
            "peers", "piece_length", "prioritize_first_last", "queue",
            "remove_at_ratio", "seed_rank", "stop_at_ratio", "stop_ratio",
            "total_done", "total_payload_download", "total_payload_upload",
            "total_peers", "total_seeds", "total_uploaded", "total_wanted", "tracker",
            "tracker_host", "tracker_status", "trackers", "upload_payload_rate"} |->
        IF k = "active_time" THEN <<k, "hours">> ELSE <<k, "plain">>]

\* The keys a status dict of the model may hold: keys of settings_map with and
\* without a format_func, keys of extra_settings_map with and without one, and
\* a key of neither map.
DelugeKeys ==
    {"name", "seeding_time", "total_size", "files", "active_time", "compact", "bogus"}

\* The values the daemon reports under a key
ValuesOf(k) ==
    CASE k = "name" -> {Str("a")}
      [] k = "seeding_time" -> {Num(5400), Num(7200)}
      [] k = "total_size" -> {Num(1572864), Num(2097152)}
      [] k = "files" -> {[files |-> <<[path |-> "d/f", size |-> 1]>>]}
      [] k = "active_time" -> {Num(1800)}
      [] k = "compact" -> {[bool |-> TRUE]}
      [] OTHER -> {Num(1)}

\* The status dicts whose keys are S
DictsOver(S) ==
    {d \in [S -> UNION {ValuesOf(k) : k \in S}] : \A k \in S : d[k] \in ValuesOf(k)}

\* The status dicts of at most MaxKeys keys
StatusDicts ==
    UNION {DictsOver(S) : S \in {T \in SUBSET DelugeKeys : Cardinality(T) <= MaxKeys}}

\* The replies of core.get_torrents_status: a status dict for every torrent
Daemons == UNION {[HS -> StatusDicts] : HS \in SUBSET Hashes}

KeyCount(t) ==
    Cardinality({hk \in Hashes \X DelugeKeys :
                    hk[1] \in DOMAIN t /\ hk[2] \in DOMAIN t[hk[1]]})

RECURSIVE GCD(_, _)
GCD(a, b) == IF b = 0 THEN a ELSE GCD(b, a % b)

\* Mutant: the division of Python 2, without the __future__ import
FloorDiv(c, d) == [num |-> c.num \div (c.den * d), den |-> 1]

\* c / d with from __future__ import division: the quotient, not its floor
TrueDiv(c, d) ==
    [num |-> c.num \div GCD(c.num, c.den * d),
     den |-> (c.den * d) \div GCD(c.num, c.den * d)]

\* format_func(value) of lines 72, 80, 81 and 84
format_func(kind, value) ==
    CASE kind = "hours" -> TrueDiv(value, 3600)
      [] kind = "mib" -> TrueDiv(TrueDiv(value, 1024), 1024)
      [] kind = "paths" ->
            [list |-> [i \in DOMAIN value.files |-> value.files[i].path]]

\* Lines 205-208: the map entry of a key; a key of neither map is a KeyError.
InMaps(key) == key \in DOMAIN settings_map \/ key \in DOMAIN extra_settings_map

flexget_key(key) ==
    IF key \in DOMAIN settings_map THEN settings_map[key] ELSE extra_settings_map[key]

\* Lines 209-212: the value written under the entry field of a key
FieldValue(key, value) ==
    IF flexget_key(key)[2] # "plain"
    THEN format_func(flexget_key(key)[2], value)
    ELSE value

\* Lines 194-201: the path of the .torrent file of a hash under config_path
TorrentPath(cfg, hash) == [dir |-> cfg.config_path, file |-> hash]

\* Mutant: every key of settings_map is read from the status dict.
TorrentFieldsAllKeys(d) ==
    [f \in {flexget_key(k)[1] : k \in (DOMAIN d) \cup {"name", "seeding_time"}} |->
        IF \E k \in DOMAIN d : flexget_key(k)[1] = f
        THEN FieldValue(CHOOSE k \in DOMAIN d : flexget_key(k)[1] = f,
                        d[CHOOSE k \in DOMAIN d : flexget_key(k)[1] = f])
        ELSE [none |-> TRUE]]

\* Lines 204-212: the fields the loop over torrent_dict.items() writes
TorrentFields(d) ==
    [f \in {flexget_key(k)[1] : k \in DOMAIN d} |->
        FieldValue(CHOOSE k \in DOMAIN d : flexget_key(k)[1] = f,
                   d[CHOOSE k \in DOMAIN d : flexget_key(k)[1] = f])]

\* Lines 193-201: Entry(deluge_id=hash, url=''), with location and url when the
\* .torrent file is found
BaseFields(cfg, files, hash) ==
    IF cfg.config_path # "" /\ hash \in files
    THEN [f \in {"deluge_id", "url", "location"} |->
            CASE f = "deluge_id" -> Str(hash)
              [] f = "location" -> [path |-> TorrentPath(cfg, hash), slash |-> FALSE]
              [] f = "url" -> [scheme |-> "file://", path |-> TorrentPath(cfg, hash),
                               slash |-> cfg.config_path # "/cfg"]]
    ELSE [f \in {"deluge_id", "url"} |-> IF f = "deluge_id" THEN Str(hash) ELSE Str("")]

\* Lines 193-213: the entry of one torrent; a field written by the loop
\* replaces a field of the same name.
TorrentEntry(cfg, files, hash, d) ==
    [f \in (DOMAIN BaseFields(cfg, files, hash)) \cup (DOMAIN TorrentFields(d)) |->
        IF f \in DOMAIN TorrentFields(d) THEN TorrentFields(d)[f]
        ELSE BaseFields(cfg, files, hash)[f]]

\* InputDeluge.generate_entries(config): the entries, or the KeyError of line 208
generate_entries(cfg, files, t) ==
    IF \E h \in DOMAIN t : \E k \in DOMAIN t[h] : ~InMaps(k)
    THEN [err |-> "KeyError", entries |-> <<>>]
    ELSE [err |-> "none",
          entries |-> [h \in DOMAIN t |-> TorrentEntry(cfg, files, h, t[h])]]

\* The daemon holds some torrents; the plugin has a config; nothing has run.
DelugeInit ==
    /\ torrents \in Daemons
    /\ KeyCount(torrents) <= MaxKeys
    /\ dconfig \in [config_path : {"", "cfg", "/cfg"}]
    /\ isfile \in SUBSET (DOMAIN torrents)
    /\ dconfig.config_path = "" => isfile = {}
    /\ entries = <<>>
    /\ connected = FALSE
    /\ derr = "none"
    /\ ran = FALSE
    /\ otask = [learn |-> FALSE, test |-> FALSE, accepted |-> <<>>]
    /\ oconfig = [bool |-> FALSE]
    /\ session = <<>>
    /\ torrent_ids = {}
    /\ rpcs = <<>>
    /\ ophase = "idle"
    /\ before = <<>>
    /\ class_store = [s \in Scopes |-> [k \in Keys |-> Absent]]
    /\ db = [s \in Scopes |-> [k \in Keys |-> NoRow]]
    /\ cur = <<"task1", "pluginA">>
    /\ last = NoLast
    /\ stage = NoStage
    /\ config = "false"
    /\ entry = EmptyEntry
    /\ phase = "idle"
    /\ reads = 0
    /\ log = <<>>
    /\ lastRead = NoRead
    /\ meta_lookups = 0

\* InputDeluge.on_task_input(task, config): connect() raises PluginError when
\* the client is not connected afterwards; generate_entries; disconnect().
OnTaskInput ==
    /\ ran' = TRUE
    /\ \E up \in BOOLEAN :
          IF ~up
          THEN /\ entries' = <<>>
               /\ connected' = FALSE
               /\ derr' = "PluginError"
          ELSE \E g \in {generate_entries(dconfig, isfile, torrents)} :
               /\ entries' = g.entries
               /\ connected' = (g.err # "none")
               /\ derr' = g.err
    /\ UNCHANGED <<torrents, dconfig, isfile>>
    /\ UNCHANGED pvars
    /\ UNCHANGED tvars
    /\ UNCHANGED ovars

\* The deluge input plugin on its own
SpecDeluge == DelugeInit /\ [][OnTaskInput]_vars

\* Every key of every status dict is in one of the two maps.
AllKeysMapped == \A h \in DOMAIN torrents : \A k \in DOMAIN torrents[h] : InMaps(k)

\* C11: with a key of neither map in a status dict, generate_entries does not
\* raise, sets no field for that key, and maps every other key of every
\* torrent.
C11_UnmappedKeysIgnored ==
    (ran /\ derr # "PluginError" /\ ~AllKeysMapped) =>
        /\ derr = "none"
        /\ DOMAIN entries = DOMAIN torrents
        /\ \A h \in DOMAIN entries : \A k \in DOMAIN torrents[h] :
              IF InMaps(k) THEN flexget_key(k)[1] \in DOMAIN entries[h]
              ELSE k \notin DOMAIN entries[h]

BaseNames(h) == IF "location" \in DOMAIN entries[h]
                THEN {"deluge_id", "url", "location"} ELSE {"deluge_id", "url"}

\* C13: every key of a status dict writes one field of the entry: the value as
\* it is under a plain name, format_func(value) under the name of a pair;
\* seeding_time 7200 gives deluge_seed_time 2, and content_size is total_size
\* divided by 1024 twice.
C13_OneFieldPerKey ==
    (ran /\ derr = "none") =>
        \A h \in DOMAIN torrents :
            /\ Cardinality((DOMAIN entries[h]) \ BaseNames(h))
                  = Cardinality(DOMAIN torrents[h])
            /\ \A k \in DOMAIN torrents[h] :
                  CASE k \in {"seeding_time", "active_time"} ->
                          /\ entries[h][flexget_key(k)[1]].num * 3600
                                = torrents[h][k].num * entries[h][flexget_key(k)[1]].den
                          /\ torrents[h][k] = Num(7200)
                                => entries[h][flexget_key(k)[1]] = Num(2)
                    [] k = "total_size" ->
                          entries[h]["content_size"].num * 1024 * 1024
                             = torrents[h][k].num * entries[h]["content_size"].den
                    [] k = "files" ->
                          entries[h]["content_files"] = [list |-> <<"d/f">>]
                    [] OTHER -> entries[h][flexget_key(k)[1]] = torrents[h][k]

\* A run over a torrent that reports seeding_time 5400 and a total_size
C13_Witness ==
    /\ ran
    /\ derr = "none"
    /\ \E h \in DOMAIN torrents :
          /\ DOMAIN torrents[h] = {"seeding_time", "total_size"}
          /\ torrents[h]["seeding_time"] = Num(5400)
          /\ entries[h]["deluge_seed_time"] = [num |-> 3, den |-> 2]

(***************************************************************************)
(* deluge2.py: OutputDeluge.on_task_output                                 *)
(***************************************************************************)

\* The most entries a task accepts.
MaxAccepted == 2

\* The torrents of the daemon's session, with their save_path.
Sessions ==
    { [i \in {} |-> ""],
      [i \in {"h1"} |-> "/dl"],
      [i \in {"h2"} |-> "/old"],
      [i \in {"h1", "h2"} |-> "/old"] }

\* An accepted entry ("none" is a field that is not set; done and path are
\* history: what the handler did with the entry, and the opts['path'] it
\* handed to _set_torrent_options, "" for None or no such key): src is "magnet" when entry['url'] starts with "magnet:",
\* else "file" when entry['file'] exists and "missing" when it does not.
AcceptedEntries ==
    { [deluge_id |-> d, torrent_info_hash |-> h, src |-> x,
       failed |-> FALSE, done |-> "no", path |-> "unset"] :
          d \in {"none", "H1"}, h \in {"none", "h2"},
          x \in {"magnet", "file", "missing"} }

\* The configs of the plugin: a boolean, or a dict of options (addpaused is
\* "none" where the config does not set it).
OutputConfigs ==
    {[bool |-> b] : b \in BOOLEAN}
        \cup [path : {"", "/dl"}, label : {"", "TV"}, addpaused : {"yes"}]

AcceptedLists == UNION {[1..n -> AcceptedEntries] : n \in 0..MaxAccepted}

\* A comparison of torrent ids that takes the case as it is.
LowerIdentity(id) == id

\* torrent_id.lower()
Lower(id) == IF id = "H1" THEN "h1" ELSE id

\* _format_label(label)
format_label(label) ==
    CASE label = "TV" -> "tv"
      [] label = "my tv" -> "my_tv"
      [] OTHER -> label

\* prepare_config(config)
prepare_config(c) ==
    IF "bool" \in DOMAIN c
    THEN [enabled |-> c.bool, path |-> "", label |-> "", addpaused |-> "none"]
    ELSE [enabled |-> TRUE, path |-> c.path, label |-> c.label,
          addpaused |-> c.addpaused]

\* The id the daemon gives the torrent of the e-th entry when it adds it.
NewId(e) == <<"n1", "n2", "n3", "n4">>[e]

\* The session once the torrent id is in it, saved under loc.
Put(sess, id, loc) ==
    [i \in DOMAIN sess \cup {id} |-> IF i = id THEN loc ELSE sess[i]]

\* A handler that goes on in learn mode.
EarlyReturnNoLearn(task, cfg) ==
    ~cfg.enabled \/ ~(task.accepted # <<>> \/ task.test)

\* The two early returns of on_task_output.
EarlyReturn(task, cfg) ==
    \/ task.learn
    \/ ~cfg.enabled \/ ~(task.accepted # <<>> \/ task.test)

\* self.client.call(m, ...), or connect/disconnect, made for entry e (0: none)
client_call(c, m, e, id, opts, arg) ==
    [c EXCEPT !.rpcs = Append(@, [m |-> m, e |-> e, id |-> id,
                                  opts |-> opts, arg |-> arg])]

\* A call that names a torrent. What the daemon does with the id None is the
\* daemon's choice: it answers as for an unknown torrent (none_ok) or raises.
TorrentCall(c, m, e, id, arg, none_ok) ==
    IF id = "none" /\ ~none_ok
    THEN [client_call(c, m, e, id, {}, arg) EXCEPT !.err = "RPCError"]
    ELSE client_call(c, m, e, id, {}, arg)

\* _set_torrent_options(torrent_id, entry, opts) with opts of label and path:
\* movedone, queuetotop, content_filename, main_file_only and
\* container_directory are not configured. status['save_path'] is a KeyError
\* when the daemon knows no such torrent.
set_torrent_options(c, torrent_id, e, opts, none_ok) ==
    LET c1 == [c EXCEPT !.acc[e].deluge_id =
                            IF torrent_id = "none" THEN "None" ELSE torrent_id,
                        !.acc[e].path = opts.path]
        c2 == IF opts.label # ""
              THEN TorrentCall(c1, "label.set_torrent", e, torrent_id,
                               opts.label, none_ok)
              ELSE c1
        c3 == IF c2.err # "none"
              THEN c2
              ELSE TorrentCall(c2, "core.get_torrent_status", e, torrent_id,
                               "", none_ok)
    IN  IF c3.err # "none" \/ opts.path = ""
        THEN c3
        ELSE IF torrent_id \notin DOMAIN c3.sess
        THEN [c3 EXCEPT !.err = "KeyError"]
        ELSE IF opts.path # c3.sess[torrent_id]
        THEN [client_call(c3, "core.move_storage", e, torrent_id, {}, opts.path)
                 EXCEPT !.sess[torrent_id] = opts.path]
        ELSE c3

\* The label loop: the Label plugin is enabled and the daemon has no label yet.
add_labels(c, cfg) ==
    IF cfg.label = ""
    THEN c
    ELSE client_call(client_call(client_call(c, "core.get_enabled_plugins", 0, "none", {}, ""),
                   "label.get_labels", 0, "none", {}, ""),
              "label.add", 0, "none", {}, format_label(cfg.label))

\* torrent_ids = self.client.call('core.get_session_state')
get_session_state(c) ==
    [client_call(c, "core.get_session_state", 0, "none", {}, "")
        EXCEPT !.tids = DOMAIN c.sess]

\* The body of the loop over task.accepted for the e-th entry. add_out is what
\* the daemon does with an add call: "ok" or "raise".
add_torrent(c, e, cfg, add_out, none_ok) ==
    LET ent == c.acc[e]
        add_opts == (IF cfg.path # "" THEN {"download_location"} ELSE {})
                        \cup (IF cfg.addpaused # "none" THEN {"add_paused"} ELSE {})
        label == format_label(cfg.label)
        given == IF ent.deluge_id # "none" THEN ent.deluge_id
                 ELSE ent.torrent_info_hash
        torrent_id == IF given = "none" THEN "none" ELSE Lower(given)
        added == IF torrent_id # "none" THEN torrent_id ELSE NewId(e)
        loc == IF cfg.path # "" THEN cfg.path ELSE "/default"
        new == [label |-> label, path |-> ""]
    IN  IF torrent_id \in c.tids
        THEN set_torrent_options(
                 [client_call(c, "core.set_torrent_options", e, torrent_id,
                       add_opts \ {"download_location"}, "")
                     EXCEPT !.acc[e].done = "options"],
                 torrent_id, e, [label |-> label, path |-> cfg.path], none_ok)
        ELSE IF ent.src = "magnet"
        THEN IF add_out = "raise"
             THEN [client_call(c, "core.add_torrent_magnet", e, "none", add_opts, cfg.path)
                      EXCEPT !.err = "RPCError"]
             ELSE set_torrent_options(
                      [client_call(c, "core.add_torrent_magnet", e, "none", add_opts, cfg.path)
                          EXCEPT !.sess = Put(@, added, loc),
                                 !.acc[e].done = "added"],
                      added, e, new, none_ok)
        ELSE IF ent.src = "missing"
        THEN [c EXCEPT !.acc[e].failed = TRUE, !.ret = TRUE]
        ELSE IF add_out = "raise"
        THEN set_torrent_options(
                 [client_call(c, "core.add_torrent_file", e, "none", add_opts, cfg.path)
                     EXCEPT !.acc[e].failed = TRUE],
                 "none", e, new, none_ok)
        ELSE set_torrent_options(
                 [client_call(c, "core.add_torrent_file", e, "none", add_opts, cfg.path)
                     EXCEPT !.sess = Put(@, added, loc),
                            !.acc[e].done = "added"],
                 added, e, new, none_ok)

\* for entry in task.accepted: until an exception or the return of line 402
RECURSIVE add_torrents(_, _, _, _, _)
add_torrents(c, e, cfg, add_outs, none_ok) ==
    IF e > Len(c.acc) \/ c.err # "none" \/ c.ret
    THEN c
    ELSE With(add_torrent(c, e, cfg, add_outs[e], none_ok),
              LAMBDA c1 : add_torrents(c1, e + 1, cfg, add_outs, none_ok))

\* on_task_output(task, config) against the session sess: up is whether the
\* daemon accepts the connection.
on_task_output(task, conf, sess, up, add_outs, none_ok) ==
    LET cfg == prepare_config(conf)
        c0 == [acc |-> task.accepted, sess |-> sess, tids |-> {},
               rpcs |-> <<>>, err |-> "none", ret |-> FALSE, conn |-> FALSE]
    IN  IF EarlyReturn(task, cfg)
        THEN c0
        ELSE IF ~up
        THEN [client_call(c0, "connect", 0, "none", {}, "") EXCEPT !.err = "PluginError"]
        ELSE IF task.test
        THEN client_call(client_call(c0, "connect", 0, "none", {}, ""),
                  "disconnect", 0, "none", {}, "")
        ELSE With(get_session_state(
                      add_labels([client_call(c0, "connect", 0, "none", {}, "")
                                     EXCEPT !.conn = TRUE], cfg)),
                  LAMBDA c1 : add_torrents(c1, 1, cfg, add_outs, none_ok))

\* What the daemon may do during one run: accept the connection or not (up),
\* add each torrent or raise (add_outs), take the id None or raise (none_ok).
\* A run that makes no call after connect() has only the first to choose.
DaemonOutcomes(task, conf) ==
    LET n == Len(task.accepted)
        ok == [e \in 1..n |-> "ok"]
    IN  IF EarlyReturn(task, prepare_config(conf))
        THEN {[up |-> FALSE, add_outs |-> ok, none_ok |-> TRUE]}
        ELSE {[up |-> FALSE, add_outs |-> ok, none_ok |-> TRUE]}
                 \cup IF task.test
                      THEN {[up |-> TRUE, add_outs |-> ok, none_ok |-> TRUE]}
                      ELSE [up : {TRUE}, add_outs : [1..n -> {"ok", "raise"}],
                            none_ok : BOOLEAN]

\* A task with its accepted entries, a config and a daemon; nothing has run.
OutputInit ==
    /\ otask \in [learn : BOOLEAN, test : BOOLEAN, accepted : AcceptedLists]
    /\ oconfig \in OutputConfigs
    /\ session \in Sessions
    /\ torrent_ids = {}
    /\ rpcs = <<>>
    /\ ophase = "start"
    /\ before = otask.accepted
    /\ torrents = <<>>
    /\ dconfig = [config_path |-> ""]
    /\ isfile = {}
    /\ entries = <<>>
    /\ connected = FALSE
    /\ derr = "none"
    /\ ran = FALSE
    /\ class_store = [s \in Scopes |-> [k \in Keys |-> Absent]]
    /\ db = [s \in Scopes |-> [k \in Keys |-> NoRow]]
    /\ cur = <<"task1", "pluginA">>
    /\ last = NoLast
    /\ stage = NoStage
    /\ config = "false"
    /\ entry = EmptyEntry
    /\ phase = "idle"
    /\ reads = 0
    /\ log = <<>>
    /\ lastRead = NoRead
    /\ meta_lookups = 0

\* OutputDeluge.on_task_output(task, config), run once on the task
OnTaskOutput ==
    /\ ophase = "start"
    /\ ophase' = "done"
    /\ \E o \in DaemonOutcomes(otask, oconfig) :
          \E r \in {on_task_output(otask, oconfig, session,
                                   o.up, o.add_outs, o.none_ok)} :
             /\ otask' = [otask EXCEPT !.accepted = r.acc]
             /\ session' = r.sess
             /\ torrent_ids' = r.tids
             /\ rpcs' = r.rpcs
             /\ connected' = r.conn
             /\ derr' = r.err
    /\ UNCHANGED <<oconfig, before>>
    /\ UNCHANGED <<torrents, dconfig, isfile, entries, ran>>
    /\ UNCHANGED pvars
    /\ UNCHANGED tvars

\* The deluge output plugin on its own
SpecOutput == OutputInit /\ [][OnTaskOutput]_vars

\* The calls of the log that are RPCs: client.call, not connect or disconnect.
RpcCalls == {i \in 1..Len(rpcs) : rpcs[i].m \notin {"connect", "disconnect"}}

\* The names of the calls of the log, in order.
CallNames == [i \in 1..Len(rpcs) |-> rpcs[i].m]

\* The run was in learn mode, or disabled, or had nothing accepted outside
\* test mode.
ShouldDoNothing ==
    \/ otask.learn
    \/ ~prepare_config(oconfig).enabled
    \/ before = <<>> /\ ~otask.test

\* C21: on_task_output makes no call at all (no connect, no RPC) in learn
\* mode, when disabled, or when nothing is accepted and test mode is off; in
\* test mode it makes no RPC, and a connection it made is closed again.
C21_NothingWhenItShouldNot ==
    ophase = "done" =>
        /\ ShouldDoNothing => rpcs = <<>> /\ ~connected
        /\ ~ShouldDoNothing /\ otask.test =>
              /\ RpcCalls = {}
              /\ ~connected
              /\ derr = "none" => CallNames = <<"connect", "disconnect">>

\* A test-mode run with accepted entries connected and returned.
C21_Witness ==
    /\ ophase = "done"
    /\ otask.test /\ ~ShouldDoNothing
    /\ before # <<>>
    /\ derr = "none"
    /\ CallNames = <<"connect", "disconnect">>

\* connect() succeeded in the run: it was called and did not raise.
ConnectSucceeded ==
    \E i \in 1..Len(rpcs) : rpcs[i].m = "connect" /\ derr # "PluginError"

\* C22: a finished on_task_output whose connect() succeeded has called
\* disconnect() after it, and the client is not connected when the handler
\* has returned or raised.
C22_ConnectionsPaired ==
    ophase = "done" /\ ConnectSucceeded =>
        /\ \E i, j \in 1..Len(rpcs) :
              i < j /\ rpcs[i].m = "connect" /\ rpcs[j].m = "disconnect"
        /\ ~connected

\* The run was a normal one (not learn, not test, enabled) that returned.
NormalRunReturned ==
    /\ ophase = "done"
    /\ ~otask.learn /\ ~otask.test
    /\ prepare_config(oconfig).enabled
    /\ derr = "none"

\* C23: after a normal run that returned, every entry of task.accepted is
\* failed, or was added to the daemon, or had its options set on a torrent
\* already loaded; an entry that failed does not keep a later one from this.
C23_EveryAcceptedHandled ==
    NormalRunReturned =>
        \A e \in 1..Len(otask.accepted) :
            \/ otask.accepted[e].failed
            \/ otask.accepted[e].done \in {"added", "options"}

\* entry.get('deluge_id') or entry.get('torrent_info_hash') of an entry
GivenId(ent) ==
    IF ent.deluge_id # "none" THEN ent.deluge_id ELSE ent.torrent_info_hash

\* Two torrent ids that differ at most in case.
SameTorrent(a, b) == a = b \/ {a, b} = {"H1", "h1"}

\* The e-th accepted entry named a torrent of the fetched session state.
AlreadyLoaded(e) ==
    \E t \in torrent_ids : SameTorrent(t, GivenId(before[e]))

\* The handler got to the e-th entry: it made a call for it.
Reached(e) == \E i \in 1..Len(rpcs) : rpcs[i].e = e

\* The options of the config that go into add_opts.
ConfiguredAddOpts ==
    (IF prepare_config(oconfig).path # "" THEN {"download_location"} ELSE {})
        \cup (IF prepare_config(oconfig).addpaused # "none"
              THEN {"add_paused"} ELSE {})

AddFileRaised(e) ==
    /\ \E i \in 1..Len(rpcs) :
          rpcs[i].e = e /\ rpcs[i].m = "core.add_torrent_file"
    /\ otask.accepted[e].done # "added"

\* C25: an entry whose core.add_torrent_file raised is failed, has no call
\* made for it other than that add, and _set_torrent_options was not applied
\* to it; no entry has deluge_id None, and a deluge_id the handler set is the
\* id of a torrent of the daemon.
C25_NoFollowUpAfterFailedAdd ==
    ophase = "done" =>
        \A e \in 1..Len(otask.accepted) :
            /\ otask.accepted[e].deluge_id # "None"
            /\ AddFileRaised(e) =>
                  /\ otask.accepted[e].failed
                  /\ \A i \in 1..Len(rpcs) :
                        rpcs[i].e = e => rpcs[i].m = "core.add_torrent_file"
                  /\ otask.accepted[e].path = "unset"
            /\ otask.accepted[e].deluge_id # before[e].deluge_id =>
                  otask.accepted[e].deluge_id \in DOMAIN session

(***************************************************************************)
(* trakt_lookup.py: the specification and the claims                       *)
(***************************************************************************)

\* An entry with some given fields and a config; nothing is persisted.
Init ==
    /\ config \in Configs
    /\ entry \in {EntryOf(g) : g \in SUBSET GivenFields}
    /\ phase = "start"
    /\ reads = 0
    /\ log = <<>>
    /\ lastRead = NoRead
    /\ meta_lookups = 0
    /\ torrents = <<>>
    /\ dconfig = [config_path |-> ""]
    /\ isfile = {}
    /\ entries = <<>>
    /\ connected = FALSE
    /\ derr = "none"
    /\ ran = FALSE
    /\ otask = [learn |-> FALSE, test |-> FALSE, accepted |-> <<>>]
    /\ oconfig = [bool |-> FALSE]
    /\ session = <<>>
    /\ torrent_ids = {}
    /\ rpcs = <<>>
    /\ ophase = "idle"
    /\ before = <<>>
    /\ class_store = [s \in Scopes |-> [k \in Keys |-> Absent]]
    /\ db = [s \in Scopes |-> [k \in Keys |-> NoRow]]
    /\ cur = <<"task1", "pluginA">>
    /\ last = NoLast
    /\ stage = NoStage

Next ==
    \/ OnTaskMetainfo
    \/ \E f \in ReadFields : Read(f)

\* trakt_lookup on one entry
Spec == Init /\ [][Next]_vars

\* The lookup function of the binding raised when it was invoked.
Raised(b) ==
    \/ b.cls = "TraktLookup" /\ b.out \in {"LookupError", "ConnectionError"}
    \/ b.cls = "TraktUserDataLookup" /\ b.out = "ConnectionError"

\* The fields of the bindings called before call k of the last operation
NestedKeys(k) == UNION {entry.lazy[log[j].idx].keys : j \in 1..(k - 1)}

\* C1: the lookup function of a binding is invoked once: by the first read of
\* a field the binding covers that is not materialized, and by no read after
\* it. A binding is pending with no invocation or not pending with one; a read
\* of a field with a pending binding calls that binding; any other read calls
\* no binding that covers the field.
C1_InvokedOnce ==
    /\ \A i \in DOMAIN entry.lazy :
          entry.lazy[i].calls = IF entry.lazy[i].state = "pending" THEN 0 ELSE 1
    /\ lastRead.pend # 0 =>
          /\ entry.lazy[lastRead.pend].state # "pending"
          /\ \E k \in DOMAIN log : log[k].idx = lastRead.pend
    /\ (reads >= 1 /\ lastRead.pend = 0) =>
          \A k \in DOMAIN log : lastRead.field \notin entry.lazy[log[k].idx].keys

\* A second read of a field of a binding whose lookup was invoked by the first
C1_Witness ==
    /\ reads = 2
    /\ lastRead.pend = 0
    /\ \E i \in DOMAIN entry.lazy :
          /\ entry.lazy[i].calls = 1
          /\ entry.lazy[i].cls = "TraktLookup"
          /\ lastRead.field \in entry.lazy[i].keys
          /\ entry.store[lastRead.field] \in {"val", "absent"}

\* C2 as stated: once the lookup function of a binding has raised, every read
\* of every field the binding covers returns the default, and the function is
\* not invoked again.
C2_FailedBindingReturnsDefault ==
    \A i \in DOMAIN entry.lazy :
        (Raised(entry.lazy[i]) /\ reads >= 1 /\ lastRead.field \in entry.lazy[i].keys)
            => (lastRead.res = "absent" /\ entry.lazy[i].calls = 1)

\* C2 amended: once the lookup function of a binding has raised, every read of
\* every field the binding covers that was not set on the entry before the
\* binding was registered returns the default, and the function is not
\* invoked again.
C2_FailedBindingReturnsDefaultUnlessGiven ==
    \A i \in DOMAIN entry.lazy :
        (/\ Raised(entry.lazy[i])
         /\ reads >= 1
         /\ lastRead.field \in entry.lazy[i].keys
         /\ entry.store[lastRead.field] # "orig")
            => (lastRead.res = "absent" /\ entry.lazy[i].calls = 1)

\* A read, after the one that made the lookup raise, of a field of that binding
C2_Witness ==
    /\ reads = 2
    /\ lastRead.pend = 0
    /\ lastRead.res = "absent"
    /\ \E i \in DOMAIN entry.lazy :
          Raised(entry.lazy[i]) /\ lastRead.field \in entry.lazy[i].keys

\* C3 as stated: a TraktLookup.__call__ whose lookup function raised
\* LookupError returns with no field of the entry changed and raises nothing.
C3_LookupErrorChangesNothing ==
    \A k \in DOMAIN log :
        (log[k].cls = "TraktLookup" /\ log[k].out = "LookupError")
            => (log[k].changed = {} /\ log[k].raised = "none")

\* C3 amended: a TraktLookup.__call__ whose lookup function raised LookupError
\* raises nothing and changes no field of its own map; the only fields that
\* change during the call are those of another binding that the lookup
\* function's read of trakt_show_id or trakt_movie_id evaluated.
C3_LookupErrorChangesNoOwnField ==
    \A k \in DOMAIN log :
        (log[k].cls = "TraktLookup" /\ log[k].out = "LookupError")
            => /\ log[k].raised = "none"
               /\ log[k].changed \cap entry.lazy[log[k].idx].keys = {}
               /\ log[k].changed \subseteq NestedKeys(k)
               /\ \A f \in entry.lazy[log[k].idx].keys : entry.store[f] # "None"

\* A read whose TraktLookup binding met a LookupError
C3_Witness ==
    /\ reads >= 1
    /\ \E k \in DOMAIN log :
          /\ log[k].cls = "TraktLookup"
          /\ log[k].out = "LookupError"
          /\ lastRead.field \in entry.lazy[log[k].idx].keys

\* C4: whatever the external lookup call raises, the __call__ of the binding
\* returns normally and leaves the fields of the binding as they were.
C4_AnyExceptionIsBindingFailed ==
    \A k \in DOMAIN log :
        (reads >= 1 /\ log[k].out \notin {"ok", "val"})
            => /\ log[k].raised = "none"
               /\ log[k].changed \cap entry.lazy[log[k].idx].keys = {}

\* C5: on_task_metainfo returns with no lookup function invoked and every
\* binding still pending.
C5_RegistrationDeferred ==
    /\ meta_lookups = 0
    /\ reads = 0 => \A i \in DOMAIN entry.lazy : entry.lazy[i].state = "pending"

\* C14: the field sets of the bindings registered on an entry are pairwise
\* disjoint: no field is covered by two bindings.
C14_BindingsDisjoint ==
    \A i, j \in DOMAIN entry.lazy :
        i # j => entry.lazy[i].keys \cap entry.lazy[j].keys = {}

\* A show episode with metadata and user-data bindings registered
C14_Witness ==
    /\ phase = "registered"
    /\ Len(entry.lazy) = 9
    /\ \E i \in DOMAIN entry.lazy : entry.lazy[i].keys = episode_map

\* C16: a TraktUserDataLookup.__call__ whose media lookup or user-data lookup
\* failed with LookupError assigns nothing to its field and raises nothing.
C16_FailedUserDataLeavesFieldAbsent ==
    \A k \in DOMAIN log :
        (log[k].cls = "TraktUserDataLookup" /\ log[k].out = "None")
            => /\ log[k].raised = "none"
               /\ log[k].changed \cap entry.lazy[log[k].idx].keys = {}

\* The bindings whose lookup function reads a field of their own map with
\* eval_lazy=True: series_map holds trakt_show_id, movie_map trakt_movie_id.
SelfReading(b) == b.cls = "TraktLookup" /\ IdField(b.getter) \in b.keys

MetadataBindings ==
    {<<entry.lazy[i].keys, entry.lazy[i].getter>> :
        i \in {j \in DOMAIN entry.lazy : entry.lazy[j].cls = "TraktLookup"}}

\* The user-data bindings of the entry: the data type and media type of each
UserDataBindings ==
    {<<entry.lazy[i].data, entry.lazy[i].getter>> :
        i \in {j \in DOMAIN entry.lazy : entry.lazy[j].cls = "TraktUserDataLookup"}}

\* on_task_metainfo has run with a truthy config and nothing was read since.
JustRegistered == phase \in {"registered", "error"} /\ reads = 0 /\ config # "false"

\* The fields the entry was given, as on_task_metainfo found them
Given(f) == entry.store[f] = "orig"

C19_UserDataIffAccount ==
    /\ (phase # "start" /\ config = "false") => entry.lazy = <<>>
    /\ (phase # "start" /\ config = "true") =>
          (UserDataBindings = {} /\ MetadataBindings # {})
    /\ (phase # "start" /\ config \in {"username", "account"}) =>
          /\ phase = "registered"
          /\ {b[1] : b \in UserDataBindings} = {"collected", "watched", "ratings"}

\* The media type of the collected and watched bindings
CollectedTypes == {b[2] : b \in {c \in UserDataBindings : c[1] \in {"collected", "watched"}}}

\* C20: the media type of the collected/watched bindings agrees with the
\* metadata bindings of the entry: movie exactly when the movie bindings are
\* registered, episode only with the episode binding, season only with the
\* season binding, show only with the series bindings and neither of them.
C20_MediaTypeAgrees ==
    (JustRegistered /\ config \in {"username", "account"}) =>
        /\ (<<movie_map, "movie">> \in MetadataBindings) <=> (CollectedTypes = {"movie"})
        /\ "episode" \in CollectedTypes => <<episode_map, "episode">> \in MetadataBindings
        /\ "season" \in CollectedTypes => <<season_map, "season">> \in MetadataBindings
        /\ "show" \in CollectedTypes =>
              /\ <<series_map, "show">> \in MetadataBindings
              /\ <<episode_map, "episode">> \notin MetadataBindings
              /\ <<season_map, "season">> \notin MetadataBindings

====
